---- MODULE Spec2Model ----
(***************************************************************************)
(* Model of src/src/preprocessing/preprocessing.py: the class              *)
(* CovaltoCsvDataCleane (constructor, load_dataset,                        *)
(* remove_outliers_medcouple with its interactive retry loop, and          *)
(* standardize_sector_column).                                             *)
(*                                                                         *)
(* Numbers.  Column values are small naturals; a missing value (pandas     *)
(* NaN) is NA.  Quartiles are carried times 4 (pandas interpolates         *)
(* linearly at (n-1)*q, so 4*Q is an integer), the medcouple as an exact   *)
(* fraction, np.exp in fixed point with scale ExpScale, and the two        *)
(* limits times 8*ExpScale.                                                *)
(***************************************************************************)
EXTENDS Integers, Sequences, FiniteSets

\* ------------------------------------------------------------------ bounds
MaxRows == 2
MaxVal == 1
MaxRetries == 3
MaxObjs == 3
StatRows == 7
StatMaxVal == 4

\* ------------------------------------------------------- program constants
\* default of the parameter max_retries
DefaultRetries == 3
\* fixed-point scale standing for the float64 value of np.exp
ExpScale == 10000
\* encoding of a missing numeric value (NaN)
NA == -1

DefaultCol == "ingresos_anuales_mxn"
SectorCol == "sector_industrial"
\* missing value in a column of strings
NAStr == "NaN"

\* --------------------------------------------------------- small helpers
RECURSIVE Gcd(_, _)
Gcd(a, b) == IF b = 0 THEN a ELSE Gcd(b, a % b)

Abs(x) == IF x < 0 THEN -x ELSE x

\* the positions of s whose element satisfies the mask, as a sequence
RECURSIVE Positions(_, _)
Positions(mask, i) ==
  IF i > Len(mask) THEN <<>>
  ELSE (IF mask[i] THEN <<i>> ELSE <<>>) \o Positions(mask, i + 1)

Take(s, pos) == [k \in 1..Len(pos) |-> s[pos[k]]]

\* ------------------------------------------------------------ statistics
IsNA(v) == v = NA

DropNA(vals) == SelectSeq(vals, LAMBDA v : ~IsNA(v))

RECURSIVE Insert(_, _)
Insert(x, s) ==
  IF s = <<>> THEN <<x>>
  ELSE IF x <= Head(s) THEN <<x>> \o s
  ELSE <<Head(s)>> \o Insert(x, Tail(s))

RECURSIVE SortAsc(_)
SortAsc(s) == IF s = <<>> THEN <<>> ELSE Insert(Head(s), SortAsc(Tail(s)))

\* np.sort of a float array: ascending, NaN last
NpSort(vals) ==
  SortAsc(DropNA(vals)) \o [k \in 1..(Len(vals) - Len(DropNA(vals))) |-> NA]

\* 4 * Series.quantile(num/4) as describe() computes it: linear interpolation
\* over the sorted non-missing values; NA when there is none
Quartile4(vals, num) ==
  LET y == SortAsc(DropNA(vals))
      n == Len(y)
      p == (n - 1) * num
      lo == p \div 4
      r == p % 4
  IN  IF n = 0 THEN NA
      ELSE IF r = 0 THEN 4 * y[lo + 1]
      ELSE 4 * y[lo + 1] + r * (y[lo + 2] - y[lo + 1])

\* fractions <<num, den>> with den > 0
FracLt(a, b) == a[1] * b[2] < b[1] * a[2]
FracLe(a, b) == a[1] * b[2] <= b[1] * a[2]
FracNorm(num, den) ==
  LET g == Gcd(Abs(num), den) IN IF g = 0 THEN <<0, 1>> ELSE <<num \div g, den \div g>>

\* the k-th smallest element of a non-empty sequence of fractions
Kth(h, k) ==
  LET i == CHOOSE i \in 1..Len(h) :
             /\ Cardinality({j \in 1..Len(h) : FracLt(h[j], h[i])}) < k
             /\ Cardinality({j \in 1..Len(h) : FracLe(h[j], h[i])}) >= k
  IN  h[i]

\* np.median of the flattened kernel matrix
MedianFrac(h) ==
  LET m == Len(h)
  IN  IF m % 2 = 1 THEN LET a == Kth(h, (m + 1) \div 2) IN FracNorm(a[1], a[2])
      ELSE LET a == Kth(h, m \div 2)
               b == Kth(h, m \div 2 + 1)
           IN  FracNorm(a[1] * b[2] + b[1] * a[2], 2 * a[2] * b[2])

\* statsmodels.stats.stattools.medcouple on the column's array, missing
\* values included: [nan |-> TRUE] or [nan |-> FALSE, f |-> <<num, den>>]
Medcouple(vals) ==
  LET y == NpSort(vals)
      n == Len(y)
      \* twice the median mf of the array as sorted, NaN last
      mf2 == IF n % 2 = 0
             THEN (IF IsNA(y[n \div 2]) \/ IsNA(y[n \div 2 + 1]) THEN NA
                   ELSE y[n \div 2] + y[n \div 2 + 1])
             ELSE (IF IsNA(y[(n + 1) \div 2]) THEN NA ELSE 2 * y[(n + 1) \div 2])
      nn == DropNA(y)
      z == [k \in 1..Len(nn) |-> 2 * nn[k] - mf2]
      lower == SelectSeq(z, LAMBDA x : x <= 0)
      upper == SelectSeq(z, LAMBDA x : x >= 0)
      ties == Len(SelectSeq(lower, LAMBDA x : x = 0))
      nl == Len(lower)
      \* kernel h[i][j]; the block of ties holds -1 above, 0 on and 1 below
      \* its anti-diagonal
      H(i, j) ==
        IF upper[i] = 0 /\ lower[j] = 0
        THEN LET s == (i - 1) + (j - 1 - (nl - ties))
             IN  IF s < ties - 1 THEN <<-1, 1>>
                 ELSE IF s = ties - 1 THEN <<0, 1>> ELSE <<1, 1>>
        ELSE <<upper[i] + lower[j], upper[i] - lower[j]>>
      h == [k \in 1..(Len(upper) * nl) |->
              H(((k - 1) \div nl) + 1, ((k - 1) % nl) + 1)]
  IN  IF n = 0 \/ IsNA(mf2) \/ Len(upper) * nl = 0 THEN [nan |-> TRUE]
      ELSE [nan |-> FALSE, f |-> MedianFrac(h)]

\* ExpScale * exp(a/b) for b > 0, by the Taylor series of exp(|a|/b); a
\* negative exponent is the reciprocal
RECURSIVE ExpSeries(_, _, _, _)
ExpSeries(t, a, b, k) ==
  IF t = 0 THEN 0 ELSE t + ExpSeries((t * a) \div (b * (k + 1)), a, b, k + 1)

NpExp(a, b) ==
  LET s == ExpSeries(ExpScale, Abs(a), b, 0)
  IN  IF a >= 0 THEN s ELSE (ExpScale * ExpScale) \div s

\* lim_inf_MC and lim_sup_MC, times 8 * ExpScale; NaN when the column has
\* no value.  A NaN medcouple takes the else branch (both tests are false).
Limits(vals) ==
  LET q1 == Quartile4(vals, 1)
      q3 == Quartile4(vals, 3)
      ri == q3 - q1
      mc == Medcouple(vals)
      p == IF mc.nan THEN 0 ELSE mc.f[1]
      q == IF mc.nan THEN 1 ELSE mc.f[2]
  IN  IF DropNA(vals) = <<>> THEN [nan |-> TRUE]
      ELSE IF p > 0
      THEN [nan |-> FALSE,
            inf |-> 2 * ExpScale * q1 - 3 * NpExp(-7 * p, 2 * q) * ri,
            sup |-> 2 * ExpScale * q3 + 3 * NpExp(4 * p, q) * ri]
      ELSE IF p < 0
      THEN [nan |-> FALSE,
            inf |-> 2 * ExpScale * q1 - 3 * NpExp(-4 * p, q) * ri,
            sup |-> 2 * ExpScale * q3 + 3 * NpExp(7 * p, 2 * q) * ri]
      ELSE [nan |-> FALSE,
            inf |-> 2 * ExpScale * q1 - 3 * ExpScale * ri,
            sup |-> 2 * ExpScale * q3 + 3 * ExpScale * ri]

\* comparisons of a column value with a limit; any comparison with NaN is False
GeLim(v, lim) == ~IsNA(v) /\ ~lim.nan /\ 8 * ExpScale * v >= lim.inf
LeLim(v, lim) == ~IsNA(v) /\ ~lim.nan /\ 8 * ExpScale * v <= lim.sup

\* the mask read as (col >= lim_inf) & ((col <= lim_sup) | col.isna())
KeepRowPrecedence(v, lim) == GeLim(v, lim) /\ (LeLim(v, lim) \/ IsNA(v))

\* the row mask: (col >= lim_inf) & (col <= lim_sup) | col.isna()
KeepRow(v, lim) == (GeLim(v, lim) /\ LeLim(v, lim)) \/ IsNA(v)

\* ------------------------------------------------------------ data frames
\* A DataFrame: the index labels of its rows, its columns by name, and each
\* column's dtype ("num" for int64/float64, "object" for strings).
ColNames == {DefaultCol, SectorCol, "foo"}

Columns(df) == DOMAIN df.cols

NRows(df) == Len(df.index)

\* the selection followed by reset_index(drop=True): the kept rows relabelled
SelectRowsResetIndex(df, mask) ==
  LET pos == Positions(mask, 1)
  IN  [index |-> [k \in 1..Len(pos) |-> k - 1],
       cols |-> [c \in Columns(df) |-> Take(df.cols[c], pos)],
       dtype |-> df.dtype]

\* the selection made by position with the kept labels (iloc in place of
\* loc); a label past the last position selects nothing
SelectRowsIloc(df, mask) ==
  LET kept == Take(df.index, Positions(mask, 1))
      pos == SelectSeq([k \in 1..Len(kept) |-> kept[k] + 1],
                       LAMBDA q : q <= NRows(df))
  IN  [index |-> Take(df.index, pos),
       cols |-> [c \in Columns(df) |-> Take(df.cols[c], pos)],
       dtype |-> df.dtype]

\* boolean-mask selection data[mask]: the rows at the kept positions, with
\* their index labels
SelectRows(df, mask) ==
  LET pos == Positions(mask, 1)
  IN  [index |-> Take(df.index, pos),
       cols |-> [c \in Columns(df) |-> Take(df.cols[c], pos)],
       dtype |-> df.dtype]

\* lines 139-143: the rows kept for column c under the limits lim
FilterRows(df, c, lim) ==
  SelectRows(df, [i \in 1..NRows(df) |-> KeepRow(df.cols[c][i], lim)])

\* Series.replace({'retail': 'Retail'}): cells equal to 'retail' become
\* 'Retail'; a numeric column holds no string and is left as it is
ReplaceRetail(cells, dtype) ==
  IF dtype = "object"
  THEN [i \in 1..Len(cells) |-> IF cells[i] = "retail" THEN "Retail" ELSE cells[i]]
  ELSE cells

\* replace() called without assigning its result back
StandardizeFrameNoAssign(df) == df

\* lines 175-176: the sector column reassigned in the same DataFrame
StandardizeFrame(df) ==
  [df EXCEPT !.cols[SectorCol] = ReplaceRetail(df.cols[SectorCol], df.dtype[SectorCol])]

\* ------------------------------------------------------------- the inputs
\* The names the class body imports (lines 9-12).  They are bound as class
\* attributes, so a method's bare reference to one of them resolves only if
\* the module's global namespace binds it.
ImportNames == {"Path", "pd", "np", "medcouple"}

Paths == {"covalto.csv", "nowhere.csv"}
ExistingFiles == {"covalto.csv"}

SectorPalette == <<"retail", NAStr, "Manufactura", "Retail">>
Shifts == {0, 2, 3}

SectorCells(n, s) == [i \in 1..n |-> SectorPalette[((i - 1 + s) % 4) + 1]]

\* pd.read_csv of a file with an income column and, when sec >= 0, a sector
\* column (its first cell is a label, so the column is read as strings)
ReadCsv(inc, sec) ==
  LET n == Len(inc)
  IN  IF sec < 0
      THEN [index |-> [i \in 1..n |-> i - 1],
            cols |-> [c \in {DefaultCol} |-> inc],
            dtype |-> [c \in {DefaultCol} |-> "num"]]
      ELSE [index |-> [i \in 1..n |-> i - 1],
            cols |-> [c \in {DefaultCol, SectorCol} |->
                        IF c = DefaultCol THEN inc ELSE SectorCells(n, sec)],
            dtype |-> [c \in {DefaultCol, SectorCol} |->
                        IF c = DefaultCol THEN "num" ELSE "object"]]

\* the files of the lifecycle specification: every income column of 1 to
\* MaxRows cells, with or without a sector column, and one unparsable file
CsvFiles ==
  {[ok |-> FALSE]} \cup
  {[ok |-> TRUE, df |-> ReadCsv(inc, sec)] :
     inc \in UNION {[1..n -> {NA} \cup 0..MaxVal] : n \in 1..MaxRows},
     sec \in {-1} \cup Shifts}

\* the non-decreasing sequences of n cells over lo..StatMaxVal
RECURSIVE NonDecreasing(_, _)
NonDecreasing(n, lo) ==
  IF n = 0 THEN {<<>>}
  ELSE UNION {{<<v>> \o t : t \in NonDecreasing(n - 1, v)} : v \in lo..StatMaxVal}

\* the files of the statistics specification: income columns of 1 to
\* StatRows cells in non-decreasing order (missing cells first), with the
\* sector column
StatFiles ==
  {[ok |-> TRUE, df |-> ReadCsv(inc, 0)] :
     inc \in UNION {NonDecreasing(n, NA) : n \in 1..StatRows}}

\* ------------------------------------------------------------------ state
VARIABLES
  globals,      \* names bound in the module's global namespace
  csv,          \* what pd.read_csv makes of the file at file_path
  file_path,    \* the constructor's argument file_path
  inst,         \* whether the constructor has returned an instance
  heap,         \* the DataFrame objects handed out so far, by identity
  data,         \* self.data: 0 for None, else a position of heap
  pc,           \* "idle", or "input" while remove_outliers waits in input()
  col_interes,  \* remove_outliers' parameter col_interes
  max_retries,  \* remove_outliers' parameter max_retries
  attempt,      \* remove_outliers' local attempt
  lookups,      \* executions of line 120 in the current or last call
  prompts,      \* executions of line 151 in the current or last call
  op,           \* the operation last called
  outcome,      \* how it ended
  before,       \* contents of self.data when the last cleaning call began
  loaded,       \* contents of the table as load_dataset last returned it
  lims,         \* lim_inf_MC, lim_sup_MC of the last filter
  prior         \* column and limits of the call before, when the last
                \* call directly followed a remove_outliers that returned

vars == <<globals, csv, file_path, inst, heap, data, pc, col_interes,
          max_retries, attempt, lookups, prompts, op, outcome, before, loaded,
          lims, prior>>

NoLims == [nan |-> TRUE]

Current == heap[data]

Snapshot == IF data = 0 THEN <<>> ELSE <<Current>>

\* ---------------------------------------------------------------- actions
\* __init__ (lines 24-45)
Construct(path) ==
  /\ ~inst
  /\ pc = "idle"
  /\ op' = "construct"
  /\ file_path' = path
  /\ IF "Path" \notin globals
     THEN outcome' = "NameError" /\ inst' = FALSE
     ELSE IF path \notin ExistingFiles
     THEN outcome' = "FileNotFoundError" /\ inst' = FALSE
     ELSE outcome' = "ok" /\ inst' = TRUE
  /\ data' = 0
  /\ UNCHANGED <<globals, csv, heap, pc, col_interes, max_retries, attempt,
                 lookups, prompts, before, loaded, lims, prior>>

\* load_dataset (lines 49-70)
Load ==
  /\ inst
  /\ pc = "idle"
  /\ Len(heap) < MaxObjs
  /\ op' = "load"
  /\ IF "pd" \notin globals
     THEN outcome' = "NameError" /\ UNCHANGED <<heap, data, loaded>>
     ELSE IF ~csv.ok
     THEN outcome' = "ParserError" /\ UNCHANGED <<heap, data, loaded>>
     ELSE /\ heap' = Append(heap, csv.df)
          /\ data' = Len(heap) + 1
          /\ loaded' = <<csv.df>>
          /\ outcome' = "returned"
  /\ UNCHANGED <<globals, csv, file_path, inst, pc, col_interes, max_retries,
                 attempt, lookups, prompts, before, lims, prior>>

\* line 150 with <= in place of <
PromptAgainLe(a, n) == a <= n

\* line 150: whether another column name is asked for
PromptAgain(a, n) == a < n

\* One pass of the while loop of remove_outliers_medcouple (lines 116-153)
\* for column name c with a failed lookups so far, up to the return, the
\* raise or the next call of input().
RunLoop(c, a, n, lk, pr) ==
  /\ col_interes' = c
  /\ max_retries' = n
  /\ IF ~(a < n)
     THEN \* line 116 is false: the method falls off its end
          /\ outcome' = "returned_none"
          /\ pc' = "idle"
          /\ UNCHANGED <<heap, data, lims>>
          /\ attempt' = a /\ lookups' = lk /\ prompts' = pr
     ELSE IF c \in Columns(Current)
     THEN /\ attempt' = a /\ lookups' = lk + 1 /\ prompts' = pr
          /\ pc' = "idle"
          /\ IF Current.dtype[c] # "num"
             THEN \* describe() of strings has 4 entries: iloc[4] is out of bounds
                  outcome' = "IndexError" /\ UNCHANGED <<heap, data, lims>>
             ELSE IF "medcouple" \notin globals
             THEN outcome' = "NameError" /\ UNCHANGED <<heap, data, lims>>
             ELSE LET vals == Current.cols[c]
                      mc == Medcouple(vals)
                  IN  IF ~mc.nan /\ mc.f[1] # 0 /\ "np" \notin globals
                      THEN outcome' = "NameError" /\ UNCHANGED <<heap, data, lims>>
                      ELSE \E lim \in {Limits(vals)} :
                             /\ lims' = lim
                             /\ heap' = Append(heap, FilterRows(Current, c, lim))
                             /\ data' = Len(heap) + 1
                             /\ outcome' = "returned"
     ELSE \* KeyError (lines 147-153)
          /\ attempt' = a + 1 /\ lookups' = lk + 1
          /\ UNCHANGED <<heap, data, lims>>
          /\ IF PromptAgain(a + 1, n)
             THEN pc' = "input" /\ prompts' = pr + 1 /\ outcome' = "blocked"
             ELSE pc' = "idle" /\ prompts' = pr /\ outcome' = "ValueError_retries"

\* lines 112-113: the method raises before its loop
RaiseNotLoaded(c, n) ==
  /\ outcome' = "ValueError_not_loaded"
  /\ col_interes' = c /\ max_retries' = n
  /\ attempt' = 0 /\ lookups' = 0 /\ prompts' = 0
  /\ UNCHANGED <<heap, data, pc, lims>>

\* column and limits of the call that just returned, for the call that follows
Prior ==
  IF op = "remove_outliers" /\ outcome = "returned"
  THEN <<[col |-> col_interes, lims |-> lims]>> ELSE <<>>

\* the call with the test of self.data made inside the loop, on each pass
RemoveOutliersLateCheck(c, n) ==
  /\ inst
  /\ pc = "idle"
  /\ Len(heap) < MaxObjs
  /\ op' = "remove_outliers"
  /\ before' = Snapshot
  /\ prior' = Prior
  /\ IF data # 0 THEN RunLoop(c, 0, n, 0, 0)
     ELSE IF 0 < n THEN RaiseNotLoaded(c, n)
     ELSE /\ outcome' = "returned_none"
          /\ col_interes' = c /\ max_retries' = n
          /\ attempt' = 0 /\ lookups' = 0 /\ prompts' = 0
          /\ UNCHANGED <<heap, data, pc, lims>>
  /\ UNCHANGED <<globals, csv, file_path, inst, loaded>>

\* a call remove_outliers_medcouple(c, n) (lines 73-153)
RemoveOutliers(c, n) ==
  /\ inst
  /\ pc = "idle"
  /\ Len(heap) < MaxObjs
  /\ op' = "remove_outliers"
  /\ before' = Snapshot
  /\ prior' = Prior
  /\ IF data = 0 THEN RaiseNotLoaded(c, n) ELSE RunLoop(c, 0, n, 0, 0)
  /\ UNCHANGED <<globals, csv, file_path, inst, loaded>>

\* the user answers the prompt of line 151 with a column name
Prompt(name) ==
  /\ pc = "input"
  /\ RunLoop(name, attempt, max_retries, lookups, prompts)
  /\ UNCHANGED <<globals, csv, file_path, inst, op, before, loaded, prior>>

\* standardize_sector_column (lines 155-178)
Standardize ==
  /\ inst
  /\ pc = "idle"
  /\ op' = "standardize"
  /\ before' = Snapshot
  /\ IF data = 0
     THEN outcome' = "AttributeError" /\ UNCHANGED heap
     ELSE IF SectorCol \notin Columns(Current)
     THEN outcome' = "ValueError_no_sector" /\ UNCHANGED heap
     ELSE /\ heap' = [heap EXCEPT ![data] = StandardizeFrame(Current)]
          /\ outcome' = "returned"
  /\ UNCHANGED <<globals, csv, file_path, inst, data, pc, col_interes,
                 max_retries, attempt, lookups, prompts, loaded, lims, prior>>

\* --------------------------------------------------------- specifications
\* The lifecycle: the module as written (no import name bound) or hosted in
\* a namespace that binds the four names, over the small files.
Init ==
  /\ globals \in {{}, ImportNames}
  /\ csv \in CsvFiles
  /\ file_path = "covalto.csv"
  /\ inst = FALSE
  /\ heap = <<>>
  /\ data = 0
  /\ pc = "idle"
  /\ col_interes = DefaultCol
  /\ max_retries = DefaultRetries
  /\ attempt = 0
  /\ lookups = 0
  /\ prompts = 0
  /\ op = "none"
  /\ outcome = "none"
  /\ before = <<>>
  /\ loaded = <<>>
  /\ lims = NoLims
  /\ prior = <<>>

Next ==
  \/ \E path \in Paths : Construct(path)
  \/ Load
  \/ \E c \in ColNames, n \in -1..MaxRetries : RemoveOutliers(c, n)
  \/ \E name \in ColNames : Prompt(name)
  \/ Standardize

Spec == Init /\ [][Next]_vars

\* The cleaning pipeline with the default arguments, from a constructed
\* instance in a namespace that binds the import names, over the larger
\* income columns.
InitStats ==
  /\ globals = ImportNames
  /\ csv \in StatFiles
  /\ file_path = "covalto.csv"
  /\ inst = TRUE
  /\ heap = <<>>
  /\ data = 0
  /\ pc = "idle"
  /\ col_interes = DefaultCol
  /\ max_retries = DefaultRetries
  /\ attempt = 0
  /\ lookups = 0
  /\ prompts = 0
  /\ op = "construct"
  /\ outcome = "ok"
  /\ before = <<>>
  /\ loaded = <<>>
  /\ lims = NoLims
  /\ prior = <<>>

NextStats ==
  \/ Load
  \/ RemoveOutliers(DefaultCol, DefaultRetries)
  \/ Standardize

SpecStats == InitStats /\ [][NextStats]_vars

\* ------------------------------------------------------------ properties
Errors == {"NameError", "FileNotFoundError", "ParserError", "AttributeError",
           "IndexError", "ValueError_not_loaded", "ValueError_retries",
           "ValueError_no_sector"}

\* a call of remove_outliers on a loaded table, running or finished
CleaningLoaded == op = "remove_outliers" /\ before # <<>>

\* the values of the target column when the call began
BeforeVals == before[1].cols[col_interes]

\* v lies within [lower, upper] of the limits lim, both ends included
WithinLims(v, lim) ==
  /\ v # NA
  /\ ~lim.nan
  /\ lim.inf <= 8 * ExpScale * v
  /\ 8 * ExpScale * v <= lim.sup

\* t is s with some of its elements left out, the others in their order
RECURSIVE IsSubSeq(_, _)
IsSubSeq(t, s) ==
  IF t = <<>> THEN TRUE
  ELSE IF s = <<>> THEN FALSE
  ELSE IF Head(t) = Head(s) THEN IsSubSeq(Tail(t), Tail(s))
  ELSE IsSubSeq(t, Tail(s))

\* the rows of a DataFrame as tuples of cells, columns in a fixed order
RowsOf(df) ==
  [i \in 1..NRows(df) |->
     <<IF DefaultCol \in Columns(df) THEN <<df.cols[DefaultCol][i]>> ELSE <<>>,
       IF SectorCol \in Columns(df) THEN <<df.cols[SectorCol][i]>> ELSE <<>>>>]

\* the same rows with the replacement of standardize applied to the sector cell
StdRowsOf(df) ==
  [i \in 1..NRows(df) |->
     <<IF DefaultCol \in Columns(df) THEN <<df.cols[DefaultCol][i]>> ELSE <<>>,
       IF SectorCol \in Columns(df)
       THEN <<IF df.cols[SectorCol][i] = "retail" THEN "Retail"
              ELSE df.cols[SectorCol][i]>>
       ELSE <<>>>>]

\* the position in the loaded table of the row labelled l (labels are 0..n-1)
LoadedPos(l) == l + 1

\* ---- C1
\* The counts of the retry loop, for a call on a loaded table with
\* max_retries = N >= 1: at most N lookups and N-1 prompts; the terminal
\* ValueError exactly when N lookups have failed, then with N lookups and
\* N-1 prompts; a prompt only while fewer than N lookups have failed.
C1_Counts ==
  (CleaningLoaded /\ max_retries >= 1) =>
    /\ lookups <= max_retries
    /\ prompts <= max_retries - 1
    /\ (outcome = "ValueError_retries") <=> (pc = "idle" /\ attempt = max_retries)
    /\ (outcome = "ValueError_retries") =>
         (lookups = max_retries /\ prompts = max_retries - 1 /\ Snapshot = before)
    /\ (pc = "input") =>
         (attempt < max_retries /\ lookups = attempt /\ prompts = attempt)
    /\ (pc = "idle" /\ attempt < max_retries) =>
         (lookups = attempt + 1 /\ prompts = attempt
          /\ col_interes \in Columns(before[1]))

\* the call ended after a lookup that succeeded
LookupSucceeded ==
  CleaningLoaded /\ max_retries >= 1 /\ pc = "idle" /\ attempt < max_retries

C2_NotLoaded ==
  (op = "remove_outliers" /\ before = <<>>) =>
    /\ outcome = "ValueError_not_loaded"
    /\ pc = "idle"
    /\ lookups = 0 /\ prompts = 0
    /\ data = 0 /\ heap = <<>>

\* the call made before any load, with a missing column and no retry left
C2_Witness ==
  /\ op = "remove_outliers" /\ before = <<>>
  /\ col_interes = "foo" /\ max_retries = 0
  /\ outcome = "ValueError_not_loaded"

\* ---- C3
\* C3: for every max_retries, a finished call of remove_outliers on a loaded
\* table either returned a table or raised an error.
C3_TableOrError ==
  (CleaningLoaded /\ pc = "idle") => outcome \in {"returned"} \cup Errors

\* ---- C4
\* C4: the constructor raises FileNotFoundError for a path that is no
\* existing file and otherwise yields an instance with no table loaded, on
\* which load_dataset makes the parsed table the current table.
C4_Construction ==
  /\ (op = "construct") =>
       IF file_path \in ExistingFiles
       THEN outcome = "ok" /\ inst /\ data = 0
       ELSE outcome = "FileNotFoundError" /\ ~inst
  /\ (op = "load" /\ csv.ok) =>
       (outcome = "returned" /\ data # 0 /\ Current = csv.df)

\* ---- C5
\* C5: a row of the table is in the result of remove_outliers if and only
\* if its target value is missing or lies within [lower, upper], both ends
\* included; the result holds those rows and no other, in their order.
C5_KeptRows ==
  (op = "remove_outliers" /\ outcome = "returned") =>
    /\ \A i \in 1..NRows(before[1]) :
         (\E k \in 1..NRows(Current) : Current.index[k] = before[1].index[i])
           <=> (BeforeVals[i] = NA \/ WithinLims(BeforeVals[i], lims))
    /\ IsSubSeq(Current.index, before[1].index)
    /\ \A k \in 1..NRows(Current) : \A i \in 1..NRows(before[1]) :
         Current.index[k] = before[1].index[i] =>
           \A c \in Columns(Current) : Current.cols[c][k] = before[1].cols[c][i]

\* a call that dropped a row, kept a row with a missing value and kept a
\* row whose value equals a limit
C5_Witness ==
  /\ op = "remove_outliers" /\ outcome = "returned"
  /\ NRows(Current) < NRows(before[1])
  /\ \E k \in 1..NRows(Current) : Current.cols[col_interes][k] = NA
  /\ \E k \in 1..NRows(Current) :
       /\ Current.cols[col_interes][k] # NA
       /\ 8 * ExpScale * Current.cols[col_interes][k] \in {lims.inf, lims.sup}

\* ---- C6
\* the current table has the columns of the loaded one and its index labels
\* are a sub-sequence of the loaded labels; a call of remove_outliers
\* returns no more rows than it was given
C6_Shape ==
  /\ (data # 0) =>
       /\ Columns(Current) = Columns(loaded[1])
       /\ IsSubSeq(Current.index, loaded[1].index)
  /\ (op = "remove_outliers" /\ outcome = "returned") =>
       NRows(Current) <= NRows(before[1])

\* C6 as stated: the rows of the current table are a sub-sequence of the
\* rows of the table as it was loaded.
C6_AsStated ==
  /\ C6_Shape
  /\ (data # 0) => IsSubSeq(RowsOf(Current), RowsOf(loaded[1]))

\* C6 amended: the rows of the current table are a sub-sequence of the rows
\* of the table as it was loaded, up to the replacement of 'retail' by
\* 'Retail' that standardize makes in the sector column: each row has the
\* cells of the loaded row of its label, or that row's cells standardized.
C6_RowsFromLoaded ==
  /\ C6_Shape
  /\ (data # 0) =>
       \A k \in 1..NRows(Current) :
         LET i == LoadedPos(Current.index[k])
         IN  \/ RowsOf(Current)[k] = RowsOf(loaded[1])[i]
             \/ RowsOf(Current)[k] = StdRowsOf(loaded[1])[i]

\* a table that lost a row to remove_outliers and was then standardized
C6_Witness ==
  /\ data # 0
  /\ op = "standardize" /\ outcome = "returned"
  /\ NRows(Current) < NRows(loaded[1])
  /\ RowsOf(Current) # RowsOf(before[1])

\* ---- C7
\* the last call directly followed a call on the same column that returned
Repeated ==
  /\ op = "remove_outliers" /\ outcome = "returned"
  /\ prior # <<>>
  /\ prior[1].col = col_interes

\* C7 as stated, read on the tables whose target column has no missing
\* value (where the medcouple sees the same values as the quartiles): a
\* second call on the same column, directly after a call that returned,
\* removes no further row.
C7_AsStated ==
  (Repeated /\ DropNA(BeforeVals) = BeforeVals) => Current = before[1]

\* C7 amended: a second call on the same column, directly after a call that
\* returned, removes no further row when it computes the limits the first
\* call computed (it recomputes them from the filtered table).
C7_SameLimits == (Repeated /\ prior[1].lims = lims) => Current = before[1]

\* a second call with the limits of the first, the first having dropped a row
C7_Witness ==
  /\ Repeated /\ prior[1].lims = lims
  /\ NRows(before[1]) < NRows(loaded[1])

\* ---- C8
\* C8: on a table with the sector column, standardize turns each cell
\* 'retail' of that column into 'Retail' and leaves every other cell, the
\* index and the other columns as they were; a second application changes
\* nothing.  Without the sector column it raises its ValueError and leaves
\* the table as it was.
C8_Standardize ==
  (op = "standardize" /\ before # <<>>) =>
    IF SectorCol \in Columns(before[1])
    THEN /\ outcome = "returned"
         /\ Current.index = before[1].index
         /\ Columns(Current) = Columns(before[1])
         /\ \A c \in Columns(Current) \ {SectorCol} :
              Current.cols[c] = before[1].cols[c]
         /\ Len(Current.cols[SectorCol]) = NRows(before[1])
         /\ \A i \in 1..NRows(before[1]) :
              Current.cols[SectorCol][i] =
                IF before[1].cols[SectorCol][i] = "retail" THEN "Retail"
                ELSE before[1].cols[SectorCol][i]
         /\ StandardizeFrame(Current) = Current
    ELSE outcome = "ValueError_no_sector" /\ Current = before[1]

\* a standardize that replaced a cell and left a 'Manufactura' and a
\* missing cell
C8_Witness ==
  /\ op = "standardize" /\ before # <<>> /\ outcome = "returned"
  /\ \E i \in 1..NRows(Current) :
       before[1].cols[SectorCol][i] = "retail" /\ Current.cols[SectorCol][i] = "Retail"
  /\ \E i \in 1..NRows(Current) : Current.cols[SectorCol][i] = NAStr

\* ---- C9
\* C9: the limits are those of the non-missing values of the target column
\* alone, and the non-missing values kept are those kept for the column
\* without its missing cells.
C9_StatsIgnoreMissing ==
  (op = "remove_outliers" /\ outcome = "returned") =>
    /\ lims = Limits(DropNA(BeforeVals))
    /\ DropNA(Current.cols[col_interes]) =
         SelectSeq(DropNA(BeforeVals),
                   LAMBDA v : WithinLims(v, Limits(DropNA(BeforeVals))))

\* ---- C10
\* C10: no call changes the contents of a table object handed out before it.
C10_NoAliasing ==
  [][\A o \in 1..Len(heap) : heap'[o] = heap[o]]_vars
====
